---- MODULE Spec2Model ----
(***************************************************************************)
(* The missing_owner_check lint of solana-lints                            *)
(* (src/lints/missing_owner_check/src/lib.rs) as a state machine.          *)
(*                                                                         *)
(* One run of check_fn over one function body: the collector               *)
(* (AccountUses::visit_expr + walk_expr) visits the body's expressions in  *)
(* pre-order and builds `uses`; then every collected account expression is *)
(* looked up with contains_owner_use / contains_key_check and a lint is    *)
(* emitted for the ones with no evidence.  Between two runs the function   *)
(* may be edited (an owner/key check on a reported expression is added,    *)
(* later removed) and linted again.                                        *)
(***************************************************************************)
EXTENDS Integers, Sequences, FiniteSets, TLC

VARIABLES body, from_expansion, pc, stack, uses, idx, findings, edit

vars == <<body, from_expansion, pc, stack, uses, idx, findings, edit>>

\* Largest number of statements in the block of an analysed function body.
MaxStmts == 2

(***************************************************************************)
(* Definition paths (solana_lints::paths) and the lint declaration.        *)
(***************************************************************************)
CORE_CLONE == "core::clone::Clone::clone"
ANCHOR_LANG_TO_ACCOUNT_INFO == "anchor_lang::ToAccountInfo::to_account_info"
ANCHOR_LANG_KEY == "anchor_lang::Key::key"
SOLANA_PROGRAM_ACCOUNT_INFO == "solana_program::account_info::AccountInfo"
ANCHOR_LANG_ACCOUNT == "anchor_lang::accounts::account::Account"
ANCHOR_LANG_PROGRAM == "anchor_lang::accounts::program::Program"
ANCHOR_LANG_SYSTEM_ACCOUNT == "anchor_lang::accounts::system_account::SystemAccount"
ANCHOR_LANG_ACCOUNT_LOADER == "anchor_lang::accounts::account_loader::AccountLoader"
ANCHOR_LANG_SIGNER == "anchor_lang::accounts::signer::Signer"
ANCHOR_LANG_SYSVAR == "anchor_lang::accounts::sysvar::Sysvar"

\* Paths of the universe that the lint does not know.
ANCHOR_LANG_UNCHECKED_ACCOUNT == "anchor_lang::accounts::unchecked_account::UncheckedAccount"
SOLANA_PROGRAM_PUBKEY == "solana_program::pubkey::Pubkey"
USER_ACCOUNTS_STRUCT == "crate::Accounts"

MISSING_OWNER_CHECK == [name |-> "missing_owner_check", level |-> "warn"]

LINT_MESSAGE == "this Account struct is used but there is no check on its owner field"

(***************************************************************************)
(* Types (rustc_middle::ty): `refs` layers of & around a type of kind      *)
(* "Adt" (with its def path `did`), "Param", "Bool", "Never" or "Unit".    *)
(***************************************************************************)
Adt(did) == [refs |-> 0, kind |-> "Adt", did |-> did]
Prim(kind) == [refs |-> 0, kind |-> kind, did |-> ""]
RefTo(ty) == [ty EXCEPT !.refs = ty.refs + 1]

\* ty::Ref(_, pointee, _)
IsRef(ty) == ty.refs >= 1
Pointee(ty) == [ty EXCEPT !.refs = ty.refs - 1]

\* The adjusted type of the receiver of a `&self` method: auto-deref to the
\* self type, then auto-ref.
AutoRef(ty) == [ty EXCEPT !.refs = 1]

AccountInfoTy == Adt(SOLANA_PROGRAM_ACCOUNT_INFO)
PubkeyTy == Adt(SOLANA_PROGRAM_PUBKEY)

(***************************************************************************)
(* HIR nodes.  span: the node's position (path from the body's block);     *)
(* name: the identifier (local, field, method or operator); def: what a    *)
(* method call resolves to ("" = unresolved); segs: number of path         *)
(* segments; res: the binding a local path resolves to; ty / adj: the      *)
(* type / adjusted type the type checker gives the node.                   *)
(***************************************************************************)
Mk(kind, name, def, segs, ty, kids) ==
    [kind |-> kind, span |-> <<>>, name |-> name, def |-> def, segs |-> segs,
     res |-> 0, ty |-> ty, adj |-> ty, kids |-> kids]

Local(name, ty) == Mk("Path", name, "", 1, ty, <<>>)
Path2(name, ty) == Mk("Path", name, "", 2, ty, <<>>)
Field(obj, fname, ty) == Mk("Field", fname, "", 0, ty, <<obj>>)
MethodCall(recv, mname, def, ty) ==
    Mk("MethodCall", mname, def, 0, ty, <<[recv EXCEPT !.adj = AutoRef(recv.ty)]>>)
Binary(op, lhs, rhs) == Mk("Binary", op, "", 0, Prim("Bool"), <<lhs, rhs>>)
Unary(op, e, ty) == Mk("Unary", op, "", 0, ty, <<e>>)
Ret == Mk("Ret", "", "", 0, Prim("Never"), <<>>)
BlockOf(stmts) == Mk("Block", "", "", 0, Prim("Unit"), stmts)
If(cond, then) == Mk("If", "", "", 0, Prim("Unit"), <<cond, BlockOf(<<then>>)>>)
\* `let name = init;` is a statement, not an expression.
Let(name, init) == Mk("Let", name, "", 0, Prim("Unit"), <<init>>)

Clone(e) == MethodCall(e, "clone", CORE_CLONE, e.ty)
ToAccountInfo(e) == MethodCall(e, "to_account_info", ANCHOR_LANG_TO_ACCOUNT_INFO, AccountInfoTy)
KeyCall(e) == MethodCall(e, "key", ANCHOR_LANG_KEY, PubkeyTy)
Owner(e) == Field(e, "owner", RefTo(PubkeyTy))
KeyField(e) == Field(e, "key", RefTo(PubkeyTy))

(***************************************************************************)
(* The analysed functions: a block of at most MaxStmts statements over an  *)
(* Anchor accounts struct `accs`, an AccountInfo local `a` and a generic   *)
(* local `t`.                                                              *)
(***************************************************************************)
LocalNames == {"a", "accs", "t", "flag"}

LocalA == Local("a", AccountInfoTy)
LocalT == Local("t", Prim("Param"))
LocalFlag == Local("flag", Prim("Bool"))
LocalAccs == Local("accs", Adt(USER_ACCOUNTS_STRUCT))
ExpectedKey == Path2("ID", RefTo(PubkeyTy))

AccsFieldTypes ==
    [info |-> SOLANA_PROGRAM_ACCOUNT_INFO,
     acct |-> ANCHOR_LANG_ACCOUNT,
     prog |-> ANCHOR_LANG_PROGRAM,
     sysacc |-> ANCHOR_LANG_SYSTEM_ACCOUNT,
     loader |-> ANCHOR_LANG_ACCOUNT_LOADER,
     signer |-> ANCHOR_LANG_SIGNER,
     sysvar |-> ANCHOR_LANG_SYSVAR,
     unchecked |-> ANCHOR_LANG_UNCHECKED_ACCOUNT]

AccsField(f) == Field(LocalAccs, f, Adt(AccsFieldTypes[f]))
AccsInfo == AccsField("info")

Receivers == {AccsField(f) : f \in DOMAIN AccsFieldTypes} \cup {LocalT}

OwnerTest(x) == If(Binary("Ne", Owner(x), ExpectedKey), Ret)

StmtUniverse ==
    {LocalA, AccsInfo}
    \cup {ToAccountInfo(r) : r \in Receivers}
    \cup {Clone(x) : x \in {LocalA, AccsInfo, Clone(AccsInfo)}}
    \cup {Owner(AccsInfo), OwnerTest(LocalA)}
    \cup {Binary("Eq", KeyField(AccsInfo), ExpectedKey),
          Binary("Ne", ExpectedKey, KeyCall(AccsInfo)),
          Binary("Lt", KeyField(AccsInfo), ExpectedKey),
          Binary("Eq", Unary("Deref", KeyField(AccsInfo), PubkeyTy), ExpectedKey),
          KeyField(AccsInfo)}
    \cup {Let("a", init) : init \in {AccsInfo, Clone(AccsInfo),
                                     ToAccountInfo(AccsField("prog"))}}

\* Name resolution: a local path resolves to the latest `let` of its name
\* before the statement (0: the function's parameter).
EnvAt(stmts, i) ==
    [n \in LocalNames |->
        Cardinality({j \in 1..(i - 1) : stmts[j].kind = "Let" /\ stmts[j].name = n})]

\* Source positions and resolutions of a statement's nodes.
RECURSIVE Locate(_, _, _)
Locate(e, sp, env) ==
    [e EXCEPT !.span = sp,
              !.res = IF e.kind = "Path" /\ e.segs = 1 THEN env[e.name] ELSE 0,
              !.kids = [i \in DOMAIN e.kids |-> Locate(e.kids[i], Append(sp, i), env)]]

\* rustc_hir::Body: `value` is the function's block.
MkBody(stmts) ==
    [value |-> [BlockOf(<<>>) EXCEPT
                  !.kids = [i \in DOMAIN stmts |-> Locate(stmts[i], <<i>>, EnvAt(stmts, i))]]]

Bodies == {MkBody(s) : s \in UNION {[1..n -> StmtUniverse] : n \in 0..MaxStmts}}

RECURSIVE NodeAt(_, _)
NodeAt(e, sp) == IF sp = <<>> THEN e ELSE NodeAt(e.kids[Head(sp)], Tail(sp))

(***************************************************************************)
(* rustc / clippy_utils primitives the lint calls.                         *)
(***************************************************************************)
\* rustc_hir::intravisit::walk_expr: the expressions visit_expr is called
\* on, in order.  A `let` statement is walked through to its initializer.
walk_expr(e) ==
    IF e.kind = "Block"
    THEN [i \in DOMAIN e.kids |->
            IF e.kids[i].kind = "Let" THEN e.kids[i].kids[1] ELSE e.kids[i]]
    ELSE e.kids

RECURSIVE PreOrder(_), PreOrderAll(_)
PreOrder(e) == <<e>> \o PreOrderAll(walk_expr(e))
PreOrderAll(es) ==
    IF Len(es) = 0 THEN <<>> ELSE PreOrder(Head(es)) \o PreOrderAll(Tail(es))

\* The expressions of a tree.
ExprsOf(e) == LET visited == PreOrder(e) IN {visited[i] : i \in DOMAIN visited}

\* solana_lints::utils::visit_expr_no_bodies: does the closure f (a function
\* of the tree's expressions) hold of some expression of the tree.
visit_expr_no_bodies(expr, f) ==
    LET visited == PreOrder(expr) IN \E i \in DOMAIN visited : f[visited[i]]

\* clippy_utils::hir_utils::swap_binop
swap_binop(op) ==
    CASE op \in {"Eq", "Ne"} -> op
      [] op = "Lt" -> "Gt"
      [] op = "Gt" -> "Lt"
      [] OTHER -> "none"

\* clippy_utils::SpanlessEq::eq_expr: same shape, names and resolutions;
\* spans and types are not compared.
RECURSIVE eq_expr(_, _)
eq_expr(l, r) ==
    /\ l.kind = r.kind
    /\ Len(l.kids) = Len(r.kids)
    /\ CASE l.kind = "Path" -> l.name = r.name /\ l.segs = r.segs /\ l.res = r.res
         [] l.kind = "Binary" ->
              \/ /\ l.name = r.name
                 /\ eq_expr(l.kids[1], r.kids[1])
                 /\ eq_expr(l.kids[2], r.kids[2])
              \/ /\ swap_binop(l.name) = r.name
                 /\ eq_expr(l.kids[2], r.kids[1])
                 /\ eq_expr(l.kids[1], r.kids[2])
         [] OTHER ->
              /\ l.name = r.name
              /\ \A i \in DOMAIN l.kids : eq_expr(l.kids[i], r.kids[i])

\* clippy_utils::match_def_path
match_def_path(def_id, path) == def_id = path

\* clippy_utils::match_any_def_paths(..).is_some()
match_any_def_paths(did, paths) == \E i \in DOMAIN paths : match_def_path(did, paths[i])

\* clippy_utils::ty::match_type: the type itself (no reference peeled) is
\* the ADT of that path.
match_type(ty, path) == ty.refs = 0 /\ ty.kind = "Adt" /\ match_def_path(ty.did, path)

(***************************************************************************)
(* The lint's helpers (lib.rs).  Option<&Expr> is <<>> (None) or <<recv>>. *)
(***************************************************************************)
\* if `expr` is a method call of `def_path` return the receiver else None
is_expr_method_call(expr, def_path) ==
    IF /\ expr.kind = "MethodCall"
       /\ expr.def # ""
       /\ match_def_path(expr.def, def_path)
    THEN <<expr.kids[1]>>
    ELSE <<>>

\* is_expr_local_variable with the wrong segment count.
is_expr_local_variable_TwoSegments(expr) == expr.kind = "Path" /\ expr.segs = 2

is_expr_local_variable(expr) == expr.kind = "Path" /\ expr.segs = 1

\* The ADTs whose to_account_info() needs no owner check.
SafeReceiverPaths ==
    <<ANCHOR_LANG_ACCOUNT,
      ANCHOR_LANG_PROGRAM,
      ANCHOR_LANG_SYSTEM_ACCOUNT,
      ANCHOR_LANG_ACCOUNT_LOADER,
      ANCHOR_LANG_SIGNER,
      ANCHOR_LANG_SYSVAR,
      SOLANA_PROGRAM_ACCOUNT_INFO>>

\* The classifier with the Sysvar path left out of the list.
is_safe_to_account_info_NoSysvar(expr) ==
    LET recv == is_expr_method_call(expr, ANCHOR_LANG_TO_ACCOUNT_INFO) IN
    /\ recv # <<>>
    /\ IsRef(recv[1].adj)
    /\ Pointee(recv[1].adj).refs = 0 /\ Pointee(recv[1].adj).kind = "Adt"
    /\ match_any_def_paths(Pointee(recv[1].adj).did, SubSeq(SafeReceiverPaths, 1, 5))

is_safe_to_account_info(expr) ==
    LET recv == is_expr_method_call(expr, ANCHOR_LANG_TO_ACCOUNT_INFO) IN
    /\ recv # <<>>
    /\ IsRef(recv[1].adj)
    /\ Pointee(recv[1].adj).refs = 0 /\ Pointee(recv[1].adj).kind = "Adt"
    /\ match_any_def_paths(Pointee(recv[1].adj).did, SafeReceiverPaths)

\* Deduplication by node identity instead of SpanlessEq.
AlreadyCollected_SameNode(collected, expr) ==
    \E i \in DOMAIN collected : collected[i] = expr

\* Is `expr` structurally equal to an expression already collected.
AlreadyCollected(collected, expr) ==
    \E i \in DOMAIN collected : eq_expr(collected[i], expr)

\* visit_expr without the is_safe_to_account_info test.
IsNewAccountUse_NoSafetyTest(collected, expr) ==
    /\ is_expr_method_call(expr, CORE_CLONE) = <<>>
    /\ match_type(expr.ty, SOLANA_PROGRAM_ACCOUNT_INFO)
    /\ ~is_expr_local_variable(expr)
    /\ ~AlreadyCollected(collected, expr)

\* visit_expr without the test that ignores `clone()` expressions.
IsNewAccountUse_NoCloneTest(collected, expr) ==
    /\ match_type(expr.ty, SOLANA_PROGRAM_ACCOUNT_INFO)
    /\ ~is_expr_local_variable(expr)
    /\ ~is_safe_to_account_info(expr)
    /\ ~AlreadyCollected(collected, expr)

\* The if_chain of AccountUses::visit_expr: is `expr` pushed to `uses`.
IsNewAccountUse(collected, expr) ==
    /\ is_expr_method_call(expr, CORE_CLONE) = <<>>
    /\ match_type(expr.ty, SOLANA_PROGRAM_ACCOUNT_INFO)
    /\ ~is_expr_local_variable(expr)
    /\ ~is_safe_to_account_info(expr)
    /\ ~AlreadyCollected(collected, expr)

\* uses_given_field comparing the nodes themselves instead of SpanlessEq.
uses_given_field_SameNode(expr, account_expr, field) ==
    /\ expr.kind = "Field"
    /\ expr.name = field
    /\ account_expr = expr.kids[1]

\* Checks if `expr` is references `field` on `account_expr`
uses_given_field(expr, account_expr, field) ==
    /\ expr.kind = "Field"
    /\ expr.name = field
    /\ eq_expr(account_expr, expr.kids[1])

contains_owner_use(b, account_expr) ==
    visit_expr_no_bodies(b.value,
        [expr \in ExprsOf(b.value) |-> uses_given_field(expr, account_expr, "owner")])

\* Checks if `expr` is a method call of `path` on `account_expr`
calls_method_on_expr(expr, account_expr, def_path) ==
    LET recv == is_expr_method_call(expr, def_path) IN
    /\ recv # <<>>
    /\ eq_expr(account_expr, recv[1])

\* Return true if the expr access key of account_expr(AccountInfo)
expr_accesses_key(expr, account_expr) ==
    \/ calls_method_on_expr(expr, account_expr, ANCHOR_LANG_KEY)
    \/ uses_given_field(expr, account_expr, "key")

\* compares_key without the test of the operator.
compares_key_AnyOperator(expr, account_expr) ==
    /\ expr.kind = "Binary"
    /\ \/ expr_accesses_key(expr.kids[1], account_expr)
       \/ expr_accesses_key(expr.kids[2], account_expr)

compares_key(expr, account_expr) ==
    /\ expr.kind = "Binary"
    /\ expr.name \in {"Eq", "Ne"}
    /\ \/ expr_accesses_key(expr.kids[1], account_expr)
       \/ expr_accesses_key(expr.kids[2], account_expr)

contains_key_check(b, account_expr) ==
    visit_expr_no_bodies(b.value,
        [expr \in ExprsOf(b.value) |-> compares_key(expr, account_expr)])

\* The condition of check_fn with || for &&.
HasNoCheck_EitherMissing(b, account_expr) ==
    \/ ~contains_owner_use(b, account_expr)
    \/ ~contains_key_check(b, account_expr)

\* The condition of check_fn under which an account expression is linted.
HasNoCheck(b, account_expr) ==
    /\ ~contains_owner_use(b, account_expr)
    /\ ~contains_key_check(b, account_expr)

\* clippy_utils::diagnostics::span_lint
span_lint(lint, sp, msg) == [lint |-> lint.name, level |-> lint.level, span |-> sp, msg |-> msg]

\* The diagnostic placed at the body's span.
Diagnostic_BodySpan(account_expr) == span_lint(MISSING_OWNER_CHECK, <<>>, LINT_MESSAGE)

\* The diagnostic check_fn emits for an account expression.
Diagnostic(account_expr) == span_lint(MISSING_OWNER_CHECK, account_expr.span, LINT_MESSAGE)

\* check_fn without the from_expansion test.
Analysed_Always(expanded) == TRUE

\* Does check_fn analyse a function whose span has this from_expansion().
Analysed(expanded) == ~expanded

(***************************************************************************)
(* The state machine.                                                      *)
(***************************************************************************)
NoEdit == [kind |-> "none", target |-> Ret, pos |-> 0]

Init ==
    /\ body \in Bodies
    /\ from_expansion \in BOOLEAN
    /\ pc = "start"
    /\ stack = <<>>
    /\ uses = <<>>
    /\ idx = 1
    /\ findings = <<>>
    /\ edit = NoEdit

\* check_fn on a function that is skipped: nothing is collected or checked.
CheckFnSkip ==
    /\ pc = "start"
    /\ ~Analysed(from_expansion)
    /\ pc' = "done"
    /\ UNCHANGED <<body, from_expansion, stack, uses, idx, findings, edit>>

\* check_fn entering get_referenced_accounts: accounts.visit_expr(body.value)
CheckFnEnter ==
    /\ pc = "start"
    /\ Analysed(from_expansion)
    /\ pc' = "collect"
    /\ stack' = <<body.value>>
    /\ uses' = <<>>
    /\ UNCHANGED <<body, from_expansion, idx, findings, edit>>

\* AccountUses::visit_expr on the next expression, then walk_expr on it.
VisitExpr ==
    /\ pc = "collect"
    /\ stack # <<>>
    /\ LET expr == Head(stack) IN
        /\ uses' = IF IsNewAccountUse(uses, expr) THEN Append(uses, expr) ELSE uses
        /\ stack' = walk_expr(expr) \o Tail(stack)
    /\ UNCHANGED <<body, from_expansion, pc, idx, findings, edit>>

\* get_referenced_accounts returns accounts.uses.
CollectReturn ==
    /\ pc = "collect"
    /\ stack = <<>>
    /\ pc' = "check"
    /\ idx' = 1
    /\ UNCHANGED <<body, from_expansion, stack, uses, findings, edit>>

\* One iteration of `for account_expr in accounts`.
CheckAccount ==
    /\ pc = "check"
    /\ idx <= Len(uses)
    /\ findings' = IF HasNoCheck(body, uses[idx])
                   THEN Append(findings, Diagnostic(uses[idx]))
                   ELSE findings
    /\ idx' = idx + 1
    /\ UNCHANGED <<body, from_expansion, pc, stack, uses, edit>>

CheckFnReturn ==
    /\ pc = "check"
    /\ idx > Len(uses)
    /\ pc' = "done"
    /\ UNCHANGED <<body, from_expansion, stack, uses, idx, findings, edit>>

(***************************************************************************)
(* Edits of the function between two runs of the lint.                     *)
(***************************************************************************)
InsertAt(s, pos, x) == SubSeq(s, 1, pos) \o <<x>> \o SubSeq(s, pos + 1, Len(s))
RemoveAt(s, pos) == SubSeq(s, 1, pos - 1) \o SubSeq(s, pos + 1, Len(s))

\* The statements that check the owner or compare the key of `r`.
CheckStmts(r) ==
    {Owner(r),
     If(LocalFlag, Owner(r)),
     Binary("Eq", KeyField(r), ExpectedKey),
     Binary("Ne", ExpectedKey, KeyCall(r))}

\* A check on a reported expression is written somewhere in the function,
\* which is then linted again.
AddCheck ==
    /\ pc = "done"
    /\ edit.kind = "none"
    /\ Len(body.value.kids) < MaxStmts
    /\ \E i \in DOMAIN findings, pos \in 0..Len(body.value.kids) :
         LET c == NodeAt(body.value, findings[i].span) IN
         \E stmt \in CheckStmts(c) :
            /\ body' = MkBody(InsertAt(body.value.kids, pos, stmt))
            /\ edit' = [kind |-> "added", target |-> c, pos |-> pos + 1]
    /\ pc' = "start"
    /\ stack' = <<>>
    /\ uses' = <<>>
    /\ idx' = 1
    /\ findings' = <<>>
    /\ UNCHANGED from_expansion

\* The added check is deleted again, and the function linted again.
RemoveCheck ==
    /\ pc = "done"
    /\ edit.kind = "added"
    /\ body' = MkBody(RemoveAt(body.value.kids, edit.pos))
    /\ edit' = [edit EXCEPT !.kind = "removed"]
    /\ pc' = "start"
    /\ stack' = <<>>
    /\ uses' = <<>>
    /\ idx' = 1
    /\ findings' = <<>>
    /\ UNCHANGED from_expansion

Next ==
    \/ CheckFnSkip
    \/ CheckFnEnter
    \/ VisitExpr
    \/ CollectReturn
    \/ CheckAccount
    \/ CheckFnReturn
    \/ AddCheck
    \/ RemoveCheck

Spec == Init /\ [][Next]_vars

(***************************************************************************)
(* Vocabulary of the properties.                                           *)
(***************************************************************************)
\* The expressions of the analysed body.
BodyExprs == ExprsOf(body.value)

\* The expression a finding points at.
ReportedExpr(f) == NodeAt(body.value, f.span)

FindingsAt(x) == {i \in DOMAIN findings : findings[i].span = x.span}
FindingsFor(x) == {i \in DOMAIN findings : eq_expr(ReportedExpr(findings[i]), x)}

RunDone == pc = "done" /\ ~from_expansion

IsCloneCall(e) == e.kind = "MethodCall" /\ e.def = CORE_CLONE

WitnessTypes ==
    {ANCHOR_LANG_ACCOUNT, ANCHOR_LANG_PROGRAM, ANCHOR_LANG_SYSTEM_ACCOUNT,
     ANCHOR_LANG_ACCOUNT_LOADER, ANCHOR_LANG_SIGNER, ANCHOR_LANG_SYSVAR}

\* e is `recv.to_account_info()` with recv (after auto-ref) a reference to
\* an ADT of one of the paths.
IsConversionFrom(e, dids) ==
    /\ e.kind = "MethodCall"
    /\ e.def = ANCHOR_LANG_TO_ACCOUNT_INFO
    /\ \E d \in dids : e.kids[1].adj = RefTo(Adt(d))

\* An account-handle expression that is neither a clone call, a bare local
\* nor a conversion the classifier accepts.
IsCandidateShape(e) ==
    /\ e.ty = AccountInfoTy
    /\ ~IsCloneCall(e)
    /\ ~(e.kind = "Path" /\ e.segs = 1)
    /\ ~IsConversionFrom(e, WitnessTypes \cup {SOLANA_PROGRAM_ACCOUNT_INFO})

HasOwnerAccess(c) ==
    \E e \in BodyExprs : e.kind = "Field" /\ e.name = "owner" /\ eq_expr(c, e.kids[1])

IsKeyAccessOf(e, c) ==
    \/ e.kind = "Field" /\ e.name = "key" /\ eq_expr(c, e.kids[1])
    \/ e.kind = "MethodCall" /\ e.def = ANCHOR_LANG_KEY /\ Len(e.kids) = 1
         /\ eq_expr(c, e.kids[1])

HasKeyComparison(c) ==
    \E e \in BodyExprs :
        /\ e.kind = "Binary"
        /\ e.name \in {"Eq", "Ne"}
        /\ \E k \in {1, 2} : IsKeyAccessOf(e.kids[k], c)

(***************************************************************************)
(* Properties.                                                             *)
(***************************************************************************)

\* C1 (safety exemption): an expression that is_safe_to_account_info
\* classifies as safe is never the reported expression of a finding and
\* never collected, whatever else the body holds; in particular
\* `let a = accs.prog.to_account_info(); a` yields no finding.
C1_SafeNeverReported ==
    /\ \A e \in BodyExprs : is_safe_to_account_info(e) =>
          /\ FindingsAt(e) = {}
          /\ \A i \in DOMAIN uses : uses[i].span # e.span
    /\ (RunDone /\ body = MkBody(<<Let("a", ToAccountInfo(AccsField("prog"))), LocalA>>))
          => findings = <<>>

\* C1 witness: a finished run over a body that holds a safe conversion and
\* an unrelated reported expression.
C1_Witness ==
    /\ RunDone
    /\ findings # <<>>
    /\ \E e \in BodyExprs : is_safe_to_account_info(e)

\* C2 (dedup): at every step the collected expressions are pairwise not
\* structurally equal, so of structurally equal expressions of the body at
\* most one is collected and at most one finding is emitted.
C2_NoDuplicateCandidates ==
    /\ \A i, j \in DOMAIN uses : i < j => ~eq_expr(uses[i], uses[j])
    /\ \A e \in BodyExprs :
          /\ Cardinality({i \in DOMAIN uses : eq_expr(uses[i], e)}) <= 1
          /\ Cardinality(FindingsFor(e)) <= 1

\* C2 witness: a finished run in which two structurally equal unsafe
\* account expressions at different places gave one candidate and one
\* finding.
C2_Witness ==
    /\ RunDone
    /\ \E e1, e2 \in BodyExprs :
          /\ e1.span # e2.span
          /\ eq_expr(e1, e2)
          /\ IsCandidateShape(e1)
          /\ Cardinality(FindingsFor(e1)) = 1
          /\ Len(uses) = 1

\* C3 (findings = unchecked candidates): while and after the candidates are
\* checked, the findings are, in order, one per candidate already looked at
\* for which neither contains_owner_use nor contains_key_check holds, each
\* at the candidate's own span.
C3_FindingsAreUncheckedCandidates ==
    (pc \in {"check", "done"} /\ ~from_expansion) =>
        LET looked == SubSeq(uses, 1, idx - 1)
            unchecked == SelectSeq(looked,
                            LAMBDA c : /\ ~contains_owner_use(body, c)
                                       /\ ~contains_key_check(body, c))
        IN /\ Len(findings) = Len(unchecked)
           /\ \A k \in DOMAIN findings : findings[k].span = unchecked[k].span
           /\ pc = "done" => idx = Len(uses) + 1

\* C3 witness: a finished run with a covered candidate (no finding) and an
\* uncovered one (a finding).
C3_Witness ==
    /\ RunDone
    /\ \E i, j \in DOMAIN uses :
          /\ contains_owner_use(body, uses[i]) \/ contains_key_check(body, uses[i])
          /\ FindingsAt(uses[i]) = {}
          /\ Cardinality(FindingsAt(uses[j])) = 1

\* C4 as claimed: is_safe_to_account_info holds exactly of the
\* to_account_info() calls whose receiver's outer type is one of the six
\* safety-witness types; a receiver of the account-handle type is unsafe.
C4_SafeIffSixWitnessTypes ==
    RunDone =>
        \A e \in BodyExprs : is_safe_to_account_info(e) <=> IsConversionFrom(e, WitnessTypes)

\* C4 (amended): is_safe_to_account_info holds exactly of the
\* to_account_info() calls whose receiver is (a reference to) an ADT that
\* is one of the six safety-witness types or AccountInfo itself; every
\* other expression and receiver type is unsafe, and a finished run has
\* collected no such call.
C4_SafeIffWitnessOrAccountInfo ==
    /\ \A e \in BodyExprs :
          is_safe_to_account_info(e) <=>
              IsConversionFrom(e, WitnessTypes \cup {SOLANA_PROGRAM_ACCOUNT_INFO})
    /\ \A i \in DOMAIN uses :
          ~IsConversionFrom(uses[i], WitnessTypes \cup {SOLANA_PROGRAM_ACCOUNT_INFO})

\* C4 witness: a finished run over a body with `accs.info.to_account_info()`
\* (receiver of type AccountInfo), a conversion from a witness type and a
\* conversion from another type, the last one reported.
C4_Witness ==
    /\ RunDone
    /\ \E e1, e2 \in BodyExprs :
          /\ IsConversionFrom(e1, {SOLANA_PROGRAM_ACCOUNT_INFO})
          /\ FindingsAt(e1) = {}
          /\ e2.kind = "MethodCall" /\ e2.def = ANCHOR_LANG_TO_ACCOUNT_INFO
          /\ FindingsAt(e2) # {}

\* C5 (coverage monotonicity): once an `.owner` access or an ==/!= key
\* comparison on a receiver structurally equal to a reported candidate c
\* has been added anywhere in the body (any position, also inside a
\* branch), the next run reports nothing structurally equal to c; once it
\* has been removed again, the next run reports c again.
C5_CoverageMonotone ==
    pc = "done" =>
        /\ edit.kind = "added" => FindingsFor(edit.target) = {}
        /\ edit.kind = "removed" => FindingsFor(edit.target) # {}

\* C5 witness: the run after the removal of an added check has finished.
C5_Witness == pc = "done" /\ edit.kind = "removed" /\ Len(body.value.kids) >= 1

\* C6 (key-comparison strategy): contains_key_check holds of a candidate c
\* exactly when the body has an == or != whose direct operand is `r.key` or
\* a call of the key accessor on r, r structurally equal to c; lacking an
\* owner access, c is then the one without a finding.
C6_KeyCheckIffKeyComparison ==
    (pc \in {"check", "done"}) =>
        \A i \in DOMAIN uses :
            /\ contains_key_check(body, uses[i]) <=> HasKeyComparison(uses[i])
            /\ (pc = "done" /\ ~HasOwnerAccess(uses[i])) =>
                  (FindingsAt(uses[i]) = {} <=> HasKeyComparison(uses[i]))

\* C6 witness: a finished run in which a candidate is covered by a key
\* comparison alone.
C6_Witness ==
    /\ RunDone
    /\ \E i \in DOMAIN uses :
          /\ HasKeyComparison(uses[i])
          /\ ~HasOwnerAccess(uses[i])
          /\ FindingsAt(uses[i]) = {}

\* The body `let a = <init>; if a.owner != ID { return }`.
IsScenario1 ==
    /\ Len(body.value.kids) = 2
    /\ body.value.kids[1].kind = "Let"
    /\ body.value.kids[1].name = "a"
    /\ body = MkBody(<<body.value.kids[1], OwnerTest(LocalA)>>)

IsClonedUnchecked(x) ==
    /\ match_type(x.ty, SOLANA_PROGRAM_ACCOUNT_INFO)
    /\ ~is_safe_to_account_info(x)
    /\ \E e \in BodyExprs : IsCloneCall(e) /\ eq_expr(x, e.kids[1])
    /\ ~contains_owner_use(body, x)
    /\ ~contains_key_check(body, x)

\* C8 as claimed: x and `x.clone()` with no check give exactly one finding
\* for x, for every shape of x including a bare local name.
C8_ClonedReportedOnceAnyShape ==
    RunDone =>
        \A x \in BodyExprs :
            (IsClonedUnchecked(x) /\ ~IsCloneCall(x)) => Cardinality(FindingsFor(x)) = 1

\* C8 (amended): a clone call is never collected or reported; an unsafe
\* account-handle expression x that is also cloned, with no owner access
\* or key comparison on it, is reported exactly once when x is neither a
\* bare local name nor itself a clone call, and not at all when it is.
C8_ClonedReportedOnceUnlessLocal ==
    /\ \A i \in DOMAIN uses : ~IsCloneCall(uses[i])
    /\ \A i \in DOMAIN findings : ~IsCloneCall(ReportedExpr(findings[i]))
    /\ RunDone =>
          \A x \in BodyExprs : IsClonedUnchecked(x) =>
              Cardinality(FindingsFor(x)) =
                  IF (x.kind = "Path" /\ x.segs = 1) \/ IsCloneCall(x) THEN 0 ELSE 1

\* C8 witness: a finished run over a body with `accs.info` and
\* `accs.info.clone()` and exactly one finding.
C8_Witness ==
    /\ RunDone
    /\ Len(findings) = 1
    /\ \E x, e \in BodyExprs :
          /\ IsClonedUnchecked(x)
          /\ x.kind = "Field"
          /\ IsCloneCall(e) /\ eq_expr(x, e.kids[1])
          /\ Head(x.span) # Head(e.span)

\* C9 as claimed: every finding has the candidate's span, severity warn and
\* the message "this account is used but there is no check on its owner
\* field".
C9_MessageAsSpecified ==
    \A i \in DOMAIN findings :
        /\ findings[i].level = "warn"
        /\ findings[i].msg = "this account is used but there is no check on its owner field"
        /\ \E k \in DOMAIN uses : uses[k].span = findings[i].span

\* C9 (amended): every finding is of the lint missing_owner_check, has the
\* span of a collected candidate without owner access or key comparison,
\* severity warn and the message "this Account struct is used but there is
\* no check on its owner field".
C9_FindingShape ==
    \A i \in DOMAIN findings :
        /\ findings[i].lint = "missing_owner_check"
        /\ findings[i].level = "warn"
        /\ findings[i].msg = "this Account struct is used but there is no check on its owner field"
        /\ \E k \in DOMAIN uses :
              /\ uses[k].span = findings[i].span
              /\ ~HasOwnerAccess(uses[k])
              /\ ~HasKeyComparison(uses[k])

\* C9 witness: a finished run with two findings.
C9_Witness == RunDone /\ Len(findings) = 2

\* C10 (macro expansions): for a function whose span comes from a macro
\* expansion nothing is visited, collected or reported, whatever the body.
C10_ExpansionSkipped ==
    from_expansion =>
        /\ pc \in {"start", "done"}
        /\ stack = <<>>
        /\ uses = <<>>
        /\ findings = <<>>

\* C10 witness: check_fn has returned for an expanded function whose body
\* holds an unsafe account expression with no check.
C10_Witness ==
    /\ from_expansion
    /\ pc = "done"
    /\ \E e \in BodyExprs : IsCandidateShape(e) /\ ~HasOwnerAccess(e) /\ ~HasKeyComparison(e)

====
